---- MODULE Spec2Model ----
(***************************************************************************)
(* Client-side encryption layer of static/js/crypto.js:                    *)
(*   CryptoManager      AES-256-GCM over WebCrypto, base64 framing          *)
(*   EncryptionStorage  the two localStorage slots                         *)
(*   EncryptedFetch     the fetch wrapper                                  *)
(*                                                                         *)
(* A JavaScript string is a sequence of UTF-16 code units (naturals), a    *)
(* byte buffer is a sequence of naturals below 256.  A fallible call       *)
(* returns a record [ok, val, err]: err names the exception thrown.        *)
(***************************************************************************)
EXTENDS Integers, Sequences, FiniteSets, TLC

VARIABLES
  hostCrypto,         \* whether the host provides crypto.subtle
  storage,            \* localStorage: the slots encryption_key and seed_phrase
  encryptionEnabled,  \* EncryptedFetch.encryptionEnabled
  options,            \* the callers' options objects, by identity
  call,               \* the EncryptedFetch.fetch calls in flight
  wire,               \* what the network primitive was handed, in order
  proc,               \* the direct EncryptionStorage.getOrCreateKey calls
  hist,               \* the key-store operations completed, in order
  cm                  \* a direct use of CryptoManager

vars == <<hostCrypto, storage, encryptionEnabled, options, call, wire, proc, hist, cm>>

\* ------------------------------------------------------------------------
\* Bounds of the model
\* ------------------------------------------------------------------------
\* Number of distinct keys crypto.subtle.generateKey can draw.
MaxGenKeys == 2
\* Number of distinct IVs crypto.getRandomValues can draw (first byte 0..MaxIV).
MaxIV == 1
\* Number of EncryptedFetch.fetch calls the host application issues.
MaxCalls == 1
\* Number of direct getOrCreateKey calls the host application issues.
MaxProcs == 2
\* Number of saveKey / clearKey / saveSeedPhrase / setEnabled calls.
MaxOps == 2
\* encrypt calls that produce an envelope, in a run of calls of CryptoManager
MaxEncrypts == 2
\* fetch calls made again with the options object of an earlier call
MaxReuse == 1

\* ------------------------------------------------------------------------
\* Outcomes
\* ------------------------------------------------------------------------
Ok(v) == [ok |-> TRUE, val |-> v, err |-> "none"]
Err(e) == [ok |-> FALSE, val |-> <<>>, err |-> e]

\* the Error generateKey throws (crypto.js line 42)
E_KEYGEN == "Error: key generation failed"
\* the Error importKey throws (crypto.js line 63)
E_KEYFORMAT == "Error: invalid key format"
\* the Error encrypt throws (crypto.js line 105)
E_ENCRYPT == "Error: encryption failed"
\* the Error decrypt throws (crypto.js line 138)
E_DECRYPT == "Error: decryption failed"
\* exceptions of the platform that the code does not catch
E_SYNTAX == "SyntaxError"
E_TYPE == "TypeError"
E_NETWORK == "TypeError: network"

\* ------------------------------------------------------------------------
\* String literals
\* ------------------------------------------------------------------------
Ord ==
  [c \in {"{", "}", "[", "]", "q", ":", ",", "\\", "=", "+", "/", "sp",
          "0", "1", "2", "a", "b", "d", "e", "f", "h", "i", "l", "n", "o",
          "p", "r", "s", "t", "u", "x", "y", "c", "j", "A", "O",
          "NUL", "BOM", "HI", "LO", "EACUTE", "EURO", "REPL"} |->
     CASE c = "{" -> 123 [] c = "}" -> 125 [] c = "[" -> 91 [] c = "]" -> 93
       [] c = "q" -> 34 [] c = ":" -> 58 [] c = "," -> 44 [] c = "\\" -> 92
       [] c = "=" -> 61 [] c = "+" -> 43 [] c = "/" -> 47 [] c = "sp" -> 32
       [] c = "0" -> 48 [] c = "1" -> 49 [] c = "2" -> 50
       [] c = "a" -> 97 [] c = "b" -> 98 [] c = "c" -> 99 [] c = "d" -> 100
       [] c = "e" -> 101 [] c = "f" -> 102 [] c = "h" -> 104 [] c = "i" -> 105
       [] c = "l" -> 108 [] c = "n" -> 110 [] c = "o" -> 111 [] c = "p" -> 112
       [] c = "r" -> 114 [] c = "s" -> 115 [] c = "t" -> 116 [] c = "u" -> 117
       [] c = "x" -> 120 [] c = "y" -> 121 [] c = "j" -> 106
       [] c = "A" -> 65 [] c = "O" -> 79
       [] c = "NUL" -> 0
       [] c = "BOM" -> 65279      \* U+FEFF
       [] c = "HI" -> 55357       \* U+D83D, a high surrogate
       [] c = "LO" -> 56832       \* U+DE00, a low surrogate
       [] c = "EACUTE" -> 233     \* U+00E9, two bytes in UTF-8
       [] c = "EURO" -> 8364      \* U+20AC, three bytes in UTF-8
       [] c = "REPL" -> 65533]    \* U+FFFD

\* The string whose characters are named by the tuple t ("q" is the quote).
Txt(t) == [i \in 1..Len(t) |-> Ord[t[i]]]

\* The sum of s[lo..hi], and of i * s[i] over lo..hi.
RECURSIVE SumRange(_, _, _)
SumRange(s, lo, hi) ==
  IF lo > hi THEN 0
  ELSE IF lo = hi THEN s[lo]
  ELSE SumRange(s, lo, (lo + hi) \div 2) + SumRange(s, (lo + hi) \div 2 + 1, hi)

SumSeq(s) == SumRange(s, 1, Len(s))

WSumSeq(s) == SumRange([i \in 1..Len(s) |-> i * s[i]], 1, Len(s))

\* The concatenation of the sequences ss[lo..hi].
RECURSIVE FlatRange(_, _, _)
FlatRange(ss, lo, hi) ==
  IF lo > hi THEN <<>>
  ELSE IF lo = hi THEN ss[lo]
  ELSE FlatRange(ss, lo, (lo + hi) \div 2) \o FlatRange(ss, (lo + hi) \div 2 + 1, hi)

Flat(ss) == FlatRange(ss, 1, Len(ss))

\* ------------------------------------------------------------------------
\* TextEncoder / TextDecoder (UTF-8)
\* ------------------------------------------------------------------------
IsHigh(u) == u >= 55296 /\ u <= 56319
IsLow(u) == u >= 56320 /\ u <= 57343

\* UTF-8 bytes of one scalar value.
UTF8Bytes(cp) ==
  IF cp < 128 THEN <<cp>>
  ELSE IF cp < 2048 THEN <<192 + (cp \div 64), 128 + (cp % 64)>>
  ELSE IF cp < 65536 THEN
    <<224 + (cp \div 4096), 128 + ((cp \div 64) % 64), 128 + (cp % 64)>>
  ELSE <<240 + (cp \div 262144), 128 + ((cp \div 4096) % 64),
         128 + ((cp \div 64) % 64), 128 + (cp % 64)>>

\* encoder.encode(s): the argument is converted to a USVString, so a
\* surrogate without its partner becomes U+FFFD.  The bytes unit i adds:
EncodeUnit(s, i) ==
  IF IsHigh(s[i]) /\ i < Len(s) /\ IsLow(s[i + 1]) THEN
    UTF8Bytes(65536 + (s[i] - 55296) * 1024 + (s[i + 1] - 56320))
  ELSE IF IsLow(s[i]) /\ i > 1 /\ IsHigh(s[i - 1]) THEN <<>>
  ELSE IF IsHigh(s[i]) \/ IsLow(s[i]) THEN UTF8Bytes(65533)
  ELSE UTF8Bytes(s[i])

TextEncode(s) == Flat([i \in 1..Len(s) |-> EncodeUnit(s, i)])

IsCont(b, i) == i <= Len(b) /\ b[i] >= 128 /\ b[i] < 192

\* Code units of one scalar value.
Units(cp) ==
  IF cp < 65536 THEN <<cp>>
  ELSE <<55296 + ((cp - 65536) \div 1024), 56320 + ((cp - 65536) % 1024)>>

\* The length of the well-formed UTF-8 sequence that starts at byte i, or 0.
SeqLen(b, i) ==
  IF b[i] < 128 THEN 1
  ELSE IF b[i] >= 194 /\ b[i] < 224 /\ IsCont(b, i + 1) THEN 2
  ELSE IF b[i] >= 224 /\ b[i] < 240 /\ IsCont(b, i + 1) /\ IsCont(b, i + 2)
          /\ (b[i] - 224) * 4096 + (b[i + 1] - 128) * 64 >= 2048
          /\ ~ IsHigh((b[i] - 224) * 4096 + (b[i + 1] - 128) * 64)
          /\ ~ IsLow((b[i] - 224) * 4096 + (b[i + 1] - 128) * 64) THEN 3
  ELSE IF b[i] >= 240 /\ b[i] < 245 /\ IsCont(b, i + 1) /\ IsCont(b, i + 2)
          /\ IsCont(b, i + 3)
          /\ (b[i] - 240) * 262144 + (b[i + 1] - 128) * 4096 >= 65536
          /\ (b[i] - 240) * 262144 + (b[i + 1] - 128) * 4096 < 1114112 THEN 4
  ELSE 0

\* The UTF-8 decoder in replacement mode.  The code units byte i adds: none
\* when a sequence that starts before it covers it, U+FFFD when it starts no
\* well-formed sequence.
DecodeByte(b, i) ==
  IF \E k \in 1..3 : i - k >= 1 /\ SeqLen(b, i - k) > k THEN <<>>
  ELSE IF SeqLen(b, i) = 0 THEN <<65533>>
  ELSE IF SeqLen(b, i) = 1 THEN <<b[i]>>
  ELSE IF SeqLen(b, i) = 2 THEN <<(b[i] - 192) * 64 + (b[i + 1] - 128)>>
  ELSE IF SeqLen(b, i) = 3 THEN
    <<(b[i] - 224) * 4096 + (b[i + 1] - 128) * 64 + (b[i + 2] - 128)>>
  ELSE Units((b[i] - 240) * 262144 + (b[i + 1] - 128) * 4096
               + (b[i + 2] - 128) * 64 + (b[i + 3] - 128))

\* new TextDecoder().decode(b): ignoreBOM is false by default, so a leading
\* byte order mark (EF BB BF) is consumed and not part of the result.
TextDecode(b) ==
  LET units == Flat([i \in 1..Len(b) |-> DecodeByte(b, i)])
  IN IF Len(b) >= 3 /\ b[1] = 239 /\ b[2] = 187 /\ b[3] = 191
     THEN Tail(units)
     ELSE units

\* ------------------------------------------------------------------------
\* btoa / atob
\* ------------------------------------------------------------------------
B64Char(n) ==
  IF n < 26 THEN 65 + n
  ELSE IF n < 52 THEN 97 + (n - 26)
  ELSE IF n < 62 THEN 48 + (n - 52)
  ELSE IF n = 62 THEN 43 ELSE 47

B64Val(c) ==
  IF c >= 65 /\ c <= 90 THEN c - 65
  ELSE IF c >= 97 /\ c <= 122 THEN c - 97 + 26
  ELSE IF c >= 48 /\ c <= 57 THEN c - 48 + 52
  ELSE IF c = 43 THEN 62
  ELSE IF c = 47 THEN 63 ELSE -1

\* Byte i of b, 0 past its end.
ByteAt(b, i) == IF i <= Len(b) THEN b[i] ELSE 0

\* Character q (0..3) of the base64 group that encodes bytes g+1..g+3.
BtoaChar(b, g, q) ==
  IF q = 0 THEN B64Char(b[g + 1] \div 4)
  ELSE IF q = 1 THEN B64Char((b[g + 1] % 4) * 16 + (ByteAt(b, g + 2) \div 16))
  ELSE IF g + 2 > Len(b) THEN 61
  ELSE IF q = 2 THEN B64Char((b[g + 2] % 16) * 4 + (ByteAt(b, g + 3) \div 64))
  ELSE IF g + 3 > Len(b) THEN 61
  ELSE B64Char(b[g + 3] % 64)

\* btoa(binary): throws when a code unit is above 255.
Btoa(bin) ==
  IF \E i \in 1..Len(bin) : bin[i] > 255 THEN Err("InvalidCharacterError")
  ELSE Ok([p \in 1..(4 * ((Len(bin) + 2) \div 3)) |->
             BtoaChar(bin, 3 * ((p - 1) \div 4), (p - 1) % 4)])

IsAsciiSpace(c) == c \in {9, 10, 12, 13, 32}

StripPad(s) ==
  IF Len(s) % 4 = 0 /\ Len(s) > 0 /\ s[Len(s)] = 61 THEN
    IF Len(s) > 1 /\ s[Len(s) - 1] = 61 THEN SubSeq(s, 1, Len(s) - 2)
    ELSE SubSeq(s, 1, Len(s) - 1)
  ELSE s

\* Byte r (0..2) of the group of sextets v[g+1..g+4].
AtobByte(v, g, r) ==
  IF r = 0 THEN v[g + 1] * 4 + (v[g + 2] \div 16)
  ELSE IF r = 1 THEN (v[g + 2] % 16) * 16 + (v[g + 3] \div 4)
  ELSE (v[g + 3] % 4) * 64 + v[g + 4]

\* atob(s): forgiving-base64 decode; throws InvalidCharacterError.
Atob(s) ==
  LET t == StripPad(SelectSeq(s, LAMBDA c : ~ IsAsciiSpace(c)))
      v == [i \in 1..Len(t) |-> B64Val(t[i])]
  IN IF Len(t) % 4 = 1 \/ \E i \in 1..Len(t) : v[i] < 0
     THEN Err("InvalidCharacterError")
     ELSE Ok([p \in 1..((Len(t) * 6) \div 8) |->
                AtobByte(v, 4 * ((p - 1) \div 3), (p - 1) % 3)])

\* ------------------------------------------------------------------------
\* JSON values, JSON.stringify, JSON.parse
\* ------------------------------------------------------------------------
\* A value is [t, v]: t its type, v its payload.  An object is the sequence
\* of its <<name, value>> properties in insertion order.  The model's texts
\* use integer number literals and no integer-like property names.
JNull == [t |-> "null", v |-> 0]
JUndefined == [t |-> "undefined", v |-> 0]
JBool(b) == [t |-> "bool", v |-> b]
JNum(n) == [t |-> "num", v |-> n]
JStr(s) == [t |-> "str", v |-> s]
JArr(a) == [t |-> "arr", v |-> a]
JObj(props) == [t |-> "obj", v |-> props]

HexDigit(n) == IF n < 10 THEN 48 + n ELSE 97 + (n - 10)

HexVal(c) ==
  IF c >= 48 /\ c <= 57 THEN c - 48
  ELSE IF c >= 97 /\ c <= 102 THEN c - 97 + 10
  ELSE IF c >= 65 /\ c <= 70 THEN c - 65 + 10 ELSE -1

UEscape(u) ==
  <<92, 117, HexDigit(u \div 4096), HexDigit((u \div 256) % 16),
    HexDigit((u \div 16) % 16), HexDigit(u % 16)>>

\* QuoteJSONString: what character i of a string adds inside the quotes.
QuoteUnit(s, i) ==
  IF s[i] = 34 THEN <<92, 34>>
  ELSE IF s[i] = 92 THEN <<92, 92>>
  ELSE IF s[i] = 8 THEN <<92, 98>>
  ELSE IF s[i] = 9 THEN <<92, 116>>
  ELSE IF s[i] = 10 THEN <<92, 110>>
  ELSE IF s[i] = 12 THEN <<92, 102>>
  ELSE IF s[i] = 13 THEN <<92, 114>>
  ELSE IF s[i] < 32 THEN UEscape(s[i])
  ELSE IF IsHigh(s[i]) /\ i < Len(s) /\ IsLow(s[i + 1]) THEN <<s[i]>>
  ELSE IF IsLow(s[i]) /\ i > 1 /\ IsHigh(s[i - 1]) THEN <<s[i]>>
  ELSE IF IsHigh(s[i]) \/ IsLow(s[i]) THEN UEscape(s[i])
  ELSE <<s[i]>>

Quote(s) == <<34>> \o Flat([i \in 1..Len(s) |-> QuoteUnit(s, i)]) \o <<34>>

RECURSIVE Digits(_)
Digits(n) == IF n < 10 THEN <<48 + n>> ELSE Digits(n \div 10) \o <<48 + (n % 10)>>

NumText(n) == IF n < 0 THEN <<45>> \o Digits(0 - n) ELSE Digits(n)

RECURSIVE JSONStringify(_)
RECURSIVE StringifyItems(_, _)
RECURSIVE StringifyProps(_, _)
JSONStringify(x) ==
  CASE x.t = "null" -> Txt(<<"n", "u", "l", "l">>)
    [] x.t = "bool" -> IF x.v THEN Txt(<<"t", "r", "u", "e">>)
                       ELSE Txt(<<"f", "a", "l", "s", "e">>)
    [] x.t = "num" -> NumText(x.v)
    [] x.t = "str" -> Quote(x.v)
    [] x.t = "arr" -> <<91>> \o StringifyItems(x.v, 1) \o <<93>>
    [] x.t = "obj" -> <<123>> \o StringifyProps(x.v, 1) \o <<125>>

StringifyItems(a, i) ==
  IF i > Len(a) THEN <<>>
  ELSE (IF i > 1 THEN <<44>> ELSE <<>>) \o JSONStringify(a[i])
         \o StringifyItems(a, i + 1)

StringifyProps(ps, i) ==
  IF i > Len(ps) THEN <<>>
  ELSE (IF i > 1 THEN <<44>> ELSE <<>>) \o Quote(ps[i][1]) \o <<58>>
         \o JSONStringify(ps[i][2]) \o StringifyProps(ps, i + 1)

\* The parser returns [ok, val, next]: next is the index after the value.
PFail == [ok |-> FALSE, val |-> JUndefined, next |-> 1]
POk(v, n) == [ok |-> TRUE, val |-> v, next |-> n]

IsJsonSpace(c) == c \in {9, 10, 13, 32}
IsDigit(c) == c >= 48 /\ c <= 57

RECURSIVE SkipWs(_, _)
SkipWs(s, i) == IF i <= Len(s) /\ IsJsonSpace(s[i]) THEN SkipWs(s, i + 1) ELSE i

StartsWith(s, i, lit) ==
  /\ i + Len(lit) - 1 <= Len(s)
  /\ \A j \in 1..Len(lit) : s[i + j - 1] = lit[j]

\* [[Set]] of a property while parsing: a duplicate name keeps its place and
\* takes the later value.
PutProp(ps, k, v) ==
  IF \E j \in 1..Len(ps) : ps[j][1] = k
  THEN [j \in 1..Len(ps) |-> IF ps[j][1] = k THEN <<k, v>> ELSE ps[j]]
  ELSE Append(ps, <<k, v>>)

RECURSIVE ParseDigits(_, _, _)
ParseDigits(s, i, acc) ==
  IF i <= Len(s) /\ IsDigit(s[i]) THEN ParseDigits(s, i + 1, acc * 10 + (s[i] - 48))
  ELSE POk(JNum(acc), i)

ParseNumber(s, i) ==
  LET neg == s[i] = 45
      j == IF neg THEN i + 1 ELSE i
  IN IF j > Len(s) \/ ~ IsDigit(s[j]) THEN PFail
     ELSE IF s[j] = 48 THEN POk(JNum(0), j + 1)
     ELSE LET r == ParseDigits(s, j, 0)
          IN IF neg THEN POk(JNum(0 - r.val.v), r.next) ELSE r

\* The number of backslashes that immediately precede index j, from index i on.
SlashRun(s, i, j) ==
  CHOOSE k \in 0..(j - i) :
    /\ \A m \in 1..k : s[j - m] = 92
    /\ k = j - i \/ s[j - k - 1] # 92

\* The characters an escape sequence at m stands for, <<>> if it is malformed.
Unescape(s, m, end) ==
  IF m + 1 > end THEN <<>>
  ELSE IF s[m + 1] \in {34, 92, 47} THEN <<s[m + 1]>>
  ELSE IF s[m + 1] = 98 THEN <<8>>
  ELSE IF s[m + 1] = 116 THEN <<9>>
  ELSE IF s[m + 1] = 110 THEN <<10>>
  ELSE IF s[m + 1] = 102 THEN <<12>>
  ELSE IF s[m + 1] = 114 THEN <<13>>
  ELSE IF s[m + 1] = 117 /\ m + 5 <= end /\ \A j \in 2..5 : HexVal(s[m + j]) >= 0 THEN
    <<HexVal(s[m + 2]) * 4096 + HexVal(s[m + 3]) * 256
        + HexVal(s[m + 4]) * 16 + HexVal(s[m + 5])>>
  ELSE <<>>


\* A string whose opening quote is at i - 1.  esc[m]: an escape sequence
\* starts at m; inEsc[m]: m lies inside one that starts before it.  The
\* closing quote is the first quote that no backslash escapes.
ParseChars(s, i) ==
  LET Decode(esc, inEsc, end) ==
        IF \E m \in i..(end - 1) :
             /\ ~ inEsc[m]
             /\ IF esc[m] THEN Unescape(s, m, end - 1) = <<>> ELSE s[m] < 32
        THEN PFail
        ELSE POk(JStr(Flat([n \in 1..(end - i) |->
                              IF inEsc[i + n - 1] THEN <<>>
                              ELSE IF esc[i + n - 1] THEN Unescape(s, i + n - 1, end - 1)
                              ELSE <<s[i + n - 1]>>])),
                 end + 1)
      Close(esc, inEsc, closing) ==
        IF closing = {} THEN PFail
        ELSE Decode(esc, inEsc, CHOOSE j \in closing : \A k \in closing : j <= k)
      Scan(esc, inEsc) ==
        Close(esc, inEsc, {j \in i..Len(s) : s[j] = 34 /\ ~ inEsc[j]})
      Mark(esc) ==
        Scan(esc, [m \in i..Len(s) |->
                     \/ m - 1 >= i /\ esc[m - 1]
                     \/ \E k \in 2..5 : m - k >= i /\ esc[m - k] /\ s[m - k + 1] = 117])
  IN Mark([m \in i..Len(s) |-> s[m] = 92 /\ SlashRun(s, i, m) % 2 = 0])

RECURSIVE ParseValue(_, _)
RECURSIVE ParseItems(_, _, _)
RECURSIVE ParseProps(_, _, _)
ParseValue(s, i0) ==
  LET At(i) ==
        IF i > Len(s) THEN PFail
        ELSE IF StartsWith(s, i, Txt(<<"n", "u", "l", "l">>)) THEN POk(JNull, i + 4)
        ELSE IF StartsWith(s, i, Txt(<<"t", "r", "u", "e">>)) THEN POk(JBool(TRUE), i + 4)
        ELSE IF StartsWith(s, i, Txt(<<"f", "a", "l", "s", "e">>))
          THEN POk(JBool(FALSE), i + 5)
        ELSE IF s[i] = 34 THEN ParseChars(s, i + 1)
        ELSE IF s[i] = 45 \/ IsDigit(s[i]) THEN ParseNumber(s, i)
        ELSE IF s[i] = 91 THEN
          IF SkipWs(s, i + 1) <= Len(s) /\ s[SkipWs(s, i + 1)] = 93
          THEN POk(JArr(<<>>), SkipWs(s, i + 1) + 1)
          ELSE ParseItems(s, i + 1, <<>>)
        ELSE IF s[i] = 123 THEN
          IF SkipWs(s, i + 1) <= Len(s) /\ s[SkipWs(s, i + 1)] = 125
          THEN POk(JObj(<<>>), SkipWs(s, i + 1) + 1)
          ELSE ParseProps(s, i + 1, <<>>)
        ELSE PFail
  IN At(SkipWs(s, i0))

ParseItems(s, i, acc) ==
  LET Sep(r, j) ==
        IF ~ r.ok \/ j > Len(s) THEN PFail
        ELSE IF s[j] = 44 THEN ParseItems(s, j + 1, Append(acc, r.val))
        ELSE IF s[j] = 93 THEN POk(JArr(Append(acc, r.val)), j + 1)
        ELSE PFail
      Item(r) == Sep(r, SkipWs(s, r.next))
  IN Item(ParseValue(s, i))

ParseProps(s, i0, acc) ==
  LET Sep(k, r, j) ==
        IF ~ r.ok \/ j > Len(s) THEN PFail
        ELSE IF s[j] = 44 THEN ParseProps(s, j + 1, PutProp(acc, k.val.v, r.val))
        ELSE IF s[j] = 125 THEN POk(JObj(PutProp(acc, k.val.v, r.val)), j + 1)
        ELSE PFail
      Value(k, r) == Sep(k, r, SkipWs(s, r.next))
      Colon(k, c) ==
        Value(k, IF k.ok /\ c <= Len(s) /\ s[c] = 58 THEN ParseValue(s, c + 1) ELSE PFail)
      Name(k) == Colon(k, SkipWs(s, k.next))
      At(i) == Name(IF i <= Len(s) /\ s[i] = 34 THEN ParseChars(s, i + 1) ELSE PFail)
  IN At(SkipWs(s, i0))

\* JSON.parse(text): throws SyntaxError.
JSONParse(s) ==
  LET End(r) == IF r.ok /\ SkipWs(s, r.next) > Len(s) THEN Ok(r.val) ELSE Err(E_SYNTAX)
  IN End(ParseValue(s, 1))

\* x[name] for a parsed value x that is not null.
GetProp(x, name) ==
  IF x.t = "obj" /\ \E j \in 1..Len(x.v) : x.v[j][1] = name
  THEN x.v[CHOOSE j \in 1..Len(x.v) : x.v[j][1] = name][2]
  ELSE JUndefined

\* ToBoolean
Truthy(x) ==
  CASE x.t \in {"null", "undefined"} -> FALSE
    [] x.t = "bool" -> x.v
    [] x.t = "num" -> x.v # 0
    [] x.t = "str" -> x.v # <<>>
    [] OTHER -> TRUE

\* ToString of a parsed value (an array joins its elements with commas).
RECURSIVE ToStringJS(_)
RECURSIVE JoinItems(_, _)
ToStringJS(x) ==
  CASE x.t = "str" -> x.v
    [] x.t = "num" -> NumText(x.v)
    [] x.t = "bool" -> IF x.v THEN Txt(<<"t", "r", "u", "e">>)
                       ELSE Txt(<<"f", "a", "l", "s", "e">>)
    [] x.t = "null" -> Txt(<<"n", "u", "l", "l">>)
    [] x.t = "arr" -> JoinItems(x.v, 1)
    [] OTHER -> Txt(<<"[", "o", "b", "j", "e", "c", "t", "sp",
                       "O", "b", "j", "e", "c", "t", "]">>)

JoinItems(a, i) ==
  IF i > Len(a) THEN <<>>
  ELSE (IF i > 1 THEN <<44>> ELSE <<>>)
         \o (IF a[i].t \in {"null", "undefined"} THEN <<>> ELSE ToStringJS(a[i]))
         \o JoinItems(a, i + 1)

\* ------------------------------------------------------------------------
\* crypto.subtle with AES-GCM
\* ------------------------------------------------------------------------
\* CryptoManager.constructor
ivLength == 12
KeyLength == 256
\* AES-GCM's default tag length, in bytes
TagBytes == 128 \div 8

\* The key material generateKey draws: KeyLength bits.
KeyOf(n) == [i \in 1..(KeyLength \div 8) |-> n]
\* What crypto.getRandomValues fills an ivLength buffer with.
IVOf(n) == [i \in 1..ivLength |-> IF i = 1 THEN n ELSE 7]

GenKeys == {KeyOf(n) : n \in 1..MaxGenKeys}
IVs == {IVOf(n) : n \in 0..MaxIV}

Digest(s) == <<SumSeq(s) % 256, WSumSeq(s) % 256>>

\* AES-GCM idealised as an authenticated cipher: the data masked by a stream
\* that depends on key and IV, then a tag that binds key, IV and ciphertext.
\* The tag separates every two keys, IVs and ciphertexts of the model.
Mask(k, iv, i) == (SumSeq(k) + 3 * SumSeq(iv) + i) % 256

GcmTag(k, iv, ct) ==
  Digest(k) \o <<Len(k)>> \o Digest(iv) \o <<Len(iv) % 256>>
    \o Digest(ct) \o <<Len(ct) % 256>> \o [i \in 1..(TagBytes - 9) |-> 0]

\* crypto.subtle.encrypt({name: 'AES-GCM', iv}, key, data)
SubtleEncrypt(k, iv, data) ==
  LET Seal(ct) == ct \o GcmTag(k, iv, ct)
  IN Seal([i \in 1..Len(data) |-> (data[i] + Mask(k, iv, i)) % 256])

\* A cipher that opens a buffer without verifying its tag.
SubtleDecryptUnverified(k, iv, buf) ==
  IF Len(buf) < TagBytes THEN Ok(<<>>)
  ELSE Ok([i \in 1..(Len(buf) - TagBytes) |-> (buf[i] + 256 - Mask(k, iv, i)) % 256])

\* crypto.subtle.decrypt({name: 'AES-GCM', iv}, key, buf): OperationError when
\* the buffer is shorter than the tag or the tag does not verify.
SubtleDecrypt(k, iv, buf) ==
  LET Open(ct, tag) ==
        IF Len(iv) = 0 \/ tag # GcmTag(k, iv, ct) THEN Err("OperationError")
        ELSE Ok([i \in 1..Len(ct) |-> (ct[i] + 256 - Mask(k, iv, i)) % 256])
  IN IF Len(buf) < TagBytes THEN Err("OperationError")
     ELSE Open(SubSeq(buf, 1, Len(buf) - TagBytes),
               SubSeq(buf, Len(buf) - TagBytes + 1, Len(buf)))

\* crypto.subtle.importKey('raw', keyBuffer, {name: 'AES-GCM'}, ...): DataError
\* unless the buffer holds 128, 192 or 256 bits.
SubtleImportKey(keyBuffer) ==
  IF Len(keyBuffer) * 8 \in {128, 192, 256} THEN Ok(keyBuffer) ELSE Err("DataError")

\* ------------------------------------------------------------------------
\* CryptoManager
\* ------------------------------------------------------------------------
arrayBufferToBase64(buffer) == Btoa(buffer).val

base64ToArrayBuffer(base64) == Atob(base64)

\* generateKey(), drawing key material n
generateKey(n) ==
  IF ~ hostCrypto THEN Err(E_KEYGEN)
  ELSE Ok(arrayBufferToBase64(KeyOf(n)))

importKey(base64Key) ==
  LET Import(keyBuffer) ==
        IF ~ keyBuffer.ok \/ ~ hostCrypto THEN Err(E_KEYFORMAT)
        ELSE IF ~ SubtleImportKey(keyBuffer.val).ok THEN Err(E_KEYFORMAT)
        ELSE Ok(keyBuffer.val)
  IN Import(base64ToArrayBuffer(base64Key))

\* An encrypt that uses one IV for every call, whatever generateIV drew.
encryptFixedIV(plaintext, base64Key, iv) ==
  LET Seal(key) ==
        IF ~ key.ok THEN Err(E_ENCRYPT)
        ELSE Ok(arrayBufferToBase64(
                  IVOf(0) \o SubtleEncrypt(key.val, IVOf(0), TextEncode(plaintext))))
  IN Seal(importKey(base64Key))

\* encrypt(plaintext, base64Key), generateIV() drawing iv
encrypt(plaintext, base64Key, iv) ==
  LET Seal(key) ==
        IF ~ key.ok THEN Err(E_ENCRYPT)
        ELSE Ok(arrayBufferToBase64(
                  iv \o SubtleEncrypt(key.val, iv, TextEncode(plaintext))))
  IN Seal(importKey(base64Key))

decrypt(encryptedBase64, base64Key) ==
  LET Plain(decrypted) ==
        IF ~ decrypted.ok THEN Err(E_DECRYPT) ELSE Ok(TextDecode(decrypted.val))
      Split(key, combined, n) ==
        Plain(SubtleDecrypt(key, SubSeq(combined, 1, n),
                            SubSeq(combined, n + 1, Len(combined))))
      Open(key, combined) ==
        IF ~ key.ok \/ ~ combined.ok THEN Err(E_DECRYPT)
        ELSE Split(key.val, combined.val,
                   IF Len(combined.val) < ivLength THEN Len(combined.val) ELSE ivLength)
  IN Open(importKey(base64Key), base64ToArrayBuffer(encryptedBase64))

encryptObject(obj, base64Key, iv) == encrypt(JSONStringify(obj), base64Key, iv)

decryptObject(encryptedBase64, base64Key) ==
  LET Parse(json) == IF ~ json.ok THEN json ELSE JSONParse(json.val)
  IN Parse(decrypt(encryptedBase64, base64Key))

isSupported == hostCrypto

\* ------------------------------------------------------------------------
\* localStorage and EncryptionStorage
\* ------------------------------------------------------------------------
\* getItem gives null or a string: [has, val].
Null == [has |-> FALSE, val |-> <<>>]
Str(s) == [has |-> TRUE, val |-> s]

getItem(name) == storage[name]
setItem(st, name, value) == [st EXCEPT ![name] = Str(value)]
removeItem(st, name) == [st EXCEPT ![name] = Null]

hasKey == getItem("encryption_key") # Null

getSeedPhrase == getItem("seed_phrase")

\* A getOrCreateKey that takes every slot for empty and so always generates.
KeyMissingAlways(slot) == TRUE

\* getOrCreateKey up to its await: whether !key holds of the slot as read.
KeyMissing(slot) == ~ slot.has \/ slot.val = <<>>

\* localStorage after saveKey(key)
saveKey(key) == setItem(storage, "encryption_key", key)

\* A clearKey that removes the key and leaves the seed phrase.
clearKeyOnly == removeItem(storage, "encryption_key")

\* localStorage after clearKey()
clearKey == removeItem(removeItem(storage, "encryption_key"), "seed_phrase")

\* localStorage after saveSeedPhrase(seedPhrase)
saveSeedPhrase(seedPhrase) == setItem(storage, "seed_phrase", seedPhrase)

\* What the host application passes to saveKey: a generated key, a string
\* that is no key, the empty string.
SavedKeys ==
  {arrayBufferToBase64(KeyOf(1)), Txt(<<"a", "b", "c">>), <<>>}

SeedPhrases == {Txt(<<"a", "sp", "b">>)}

\* hist: bookkeeping of the key store's use.
\*   ops         the number of host operations so far
\*   lookups     the number of reads of the encryption_key slot by getOrCreateKey
\*   sinceClear  the key the last completed getOrCreateKey returned, if one
\*               completed after the last clearKey
\*   sinceWrite  the same, if no write of the key slot followed its return
\*   reuses      the number of fetch calls made with an options object that an
\*               earlier fetch call was given
\*   reused      the body that object had when it was first passed to fetch
HistInit ==
  [ops |-> 0, lookups |-> 0, sinceClear |-> Null, sinceWrite |-> Null,
   reuses |-> 0, reused |-> [kind |-> "undefined", val |-> <<>>]]

\* getOrCreateKey read the slot.
LookedUp(h) == [h EXCEPT !.lookups = @ + 1]

\* getOrCreateKey returned key.
Returned(h, key) == [h EXCEPT !.sinceClear = Str(key), !.sinceWrite = Str(key)]

SaveKey(key) ==
  /\ hist.ops < MaxOps
  /\ storage' = saveKey(key)
  /\ hist' = [hist EXCEPT !.ops = @ + 1, !.sinceWrite = Null]
  /\ UNCHANGED <<hostCrypto, encryptionEnabled, options, call, wire, proc, cm>>

ClearKey ==
  /\ hist.ops < MaxOps
  /\ storage' = clearKey
  /\ hist' = [hist EXCEPT !.ops = @ + 1, !.sinceWrite = Null, !.sinceClear = Null]
  /\ UNCHANGED <<hostCrypto, encryptionEnabled, options, call, wire, proc, cm>>

SaveSeedPhrase(seedPhrase) ==
  /\ hist.ops < MaxOps
  /\ storage' = saveSeedPhrase(seedPhrase)
  /\ hist' = [hist EXCEPT !.ops = @ + 1]
  /\ UNCHANGED <<hostCrypto, encryptionEnabled, options, call, wire, proc, cm>>

\* A direct call of getOrCreateKey: p is idle, generating (at the await of
\* generateKey), returned or threw.  read is the slot as the call read it.
ProcIdle == [pc |-> "idle", read |-> Null, key |-> <<>>, err |-> "none"]

\* getOrCreateKey from its start to its return, or to its await.
GetOrCreateKeyStart(p) ==
  /\ proc[p].pc = "idle"
  /\ IF KeyMissing(getItem("encryption_key"))
     THEN /\ proc' = [proc EXCEPT ![p] = [pc |-> "generating",
                                          read |-> getItem("encryption_key"),
                                          key |-> <<>>, err |-> "none"]]
          /\ hist' = LookedUp(hist)
     ELSE /\ proc' = [proc EXCEPT ![p] = [pc |-> "returned",
                                          read |-> getItem("encryption_key"),
                                          key |-> getItem("encryption_key").val,
                                          err |-> "none"]]
          /\ hist' = Returned(LookedUp(hist), getItem("encryption_key").val)
  /\ UNCHANGED <<hostCrypto, storage, encryptionEnabled, options, call, wire, cm>>

\* getOrCreateKey from the await of generateKey (which drew n) to its end.
GetOrCreateKeyFinish(p, n) ==
  /\ proc[p].pc = "generating"
  /\ LET Settle(key) ==
           IF key.ok
           THEN /\ storage' = setItem(storage, "encryption_key", key.val)
                /\ proc' = [proc EXCEPT ![p].pc = "returned", ![p].key = key.val]
                /\ hist' = Returned(hist, key.val)
           ELSE /\ proc' = [proc EXCEPT ![p].pc = "threw", ![p].err = key.err]
                /\ UNCHANGED <<storage, hist>>
     IN Settle(generateKey(n))
  /\ UNCHANGED <<hostCrypto, encryptionEnabled, options, call, wire, cm>>

\* ------------------------------------------------------------------------
\* The callers' options and the transport's responses
\* ------------------------------------------------------------------------
NoHeader == "<absent>"

\* options.body: undefined, a string, or an object (FormData, Blob).
NoBody == [kind |-> "undefined", val |-> <<>>]
StringBody(s) == [kind |-> "string", val |-> s]
ObjectBody == [kind |-> "object", val |-> <<>>]

\* options.headers: undefined, or a plain object of header fields.
NoHeaders == [has |-> FALSE, ct |-> NoHeader, xauth |-> NoHeader]
Headers(ct, xauth) == [has |-> TRUE, ct |-> ct, xauth |-> xauth]

NoOptions == [passed |-> FALSE, body |-> NoBody, headers |-> NoHeaders]
Options(body, headers) == [passed |-> TRUE, body |-> body, headers |-> headers]

B_JSON == Txt(<<"{", "q", "x", "q", ":", "1", "}">>)
B_TEXT == Txt(<<"h", "i">>)
B_BOM == Txt(<<"BOM", "h", "i">>)
B_BALANCE == Txt(<<"{", "q", "b", "q", ":", "2", "}">>)

\* The options objects the host application passes.
OptionChoices ==
  { Options(StringBody(B_JSON), NoHeaders),
    Options(StringBody(B_JSON), Headers("text/plain", "token")),
    Options(StringBody(B_TEXT), Headers(NoHeader, "token")),
    Options(StringBody(B_BOM), NoHeaders),
    Options(StringBody(<<>>), NoHeaders),
    Options(NoBody, NoHeaders),
    Options(ObjectBody, Headers("multipart/form-data", NoHeader)) }

UrlOf(c) == <<"/api", c>>

\* A Response: by names who constructed it.
NoResponse ==
  [by |-> "none", status |-> 0, statusText |-> "",
   headers |-> [ct |-> NoHeader, xid |-> NoHeader], body |-> <<>>, bodyUsed |-> FALSE]

TransportResponse(status, statusText, ct, body) ==
  [by |-> "transport", status |-> status, statusText |-> statusText,
   headers |-> [ct |-> ct, xid |-> "r1"], body |-> body, bodyUsed |-> FALSE]

\* The transport form { encrypted: ..., data: ... }
P_encrypted == Txt(<<"e", "n", "c", "r", "y", "p", "t", "e", "d">>)
P_data == Txt(<<"d", "a", "t", "a">>)

TransportForm(encrypted) ==
  JObj(<< <<P_encrypted, JBool(TRUE)>>, <<P_data, JStr(encrypted)>> >>)

\* What the server collaborator produces: IV || ciphertext || tag, in base64.
ServerEnvelope(text, k) ==
  arrayBufferToBase64(IVOf(0) \o SubtleEncrypt(k, IVOf(0), TextEncode(text)))

\* One character of the ciphertext portion altered (the IV is the first 16).
Tampered(envelope) == [envelope EXCEPT ![17] = IF @ = 65 THEN 66 ELSE 65]

ResponseBodies ==
  { B_JSON, Txt(<<"n", "u", "l", "l">>),
    JSONStringify(TransportForm(<<>>)),
    JSONStringify(JObj(<< <<P_encrypted, JNum(1)>>,
                          <<P_data, JStr(ServerEnvelope(B_BALANCE, KeyOf(1)))>> >>)),
    JSONStringify(TransportForm(ServerEnvelope(B_TEXT, KeyOf(1)))),
    JSONStringify(TransportForm(Tampered(ServerEnvelope(B_BALANCE, KeyOf(1))))) }
  \cup { JSONStringify(TransportForm(ServerEnvelope(B_BALANCE, k))) : k \in GenKeys }

Responses ==
  { TransportResponse(200, "OK", "application/json", b) : b \in ResponseBodies }
  \cup
  { TransportResponse(500, "Internal Server Error", "application/json; charset=utf-8",
                      JSONStringify(TransportForm(ServerEnvelope(B_BALANCE, KeyOf(1))))),
    TransportResponse(200, "OK", "text/plain", B_TEXT),
    TransportResponse(200, "OK", NoHeader,
                      JSONStringify(TransportForm(ServerEnvelope(B_BALANCE, KeyOf(1))))) }

\* response.headers.get('content-type')?.includes('application/json')
IsJsonContentType(ct) ==
  ct \in {"application/json", "application/json; charset=utf-8"}

\* response.json() as the caller of fetch calls it on what fetch returned
ReadJson(response) ==
  IF response.bodyUsed THEN Err(E_TYPE) ELSE JSONParse(response.body)

\* ------------------------------------------------------------------------
\* EncryptedFetch
\* ------------------------------------------------------------------------
\* A call is idle, then at one of fetch's awaits, then done or failed:
\*   generating        await getOrCreateKey(), inside it await generateKey()
\*   keyReady          await getOrCreateKey(), the key returned
\*   encryptingObject  await cryptoManager.encryptObject(json, key)
\*   encryptingText    await cryptoManager.encrypt(originalBody, key)
\*   sent              await fetch(url, options)
\*   delegated         return fetch(url, options), encryption disabled
\*   responded         the transport's promise fulfilled
\*   readingJson       await response.json()
\*   decrypting        await cryptoManager.decryptObject(data.data, key)
\* attempts counts the encryptions the call asked for.
CallIdle ==
  [pc |-> "idle", key |-> <<>>, originalBody |-> NoBody, json |-> JUndefined,
   data |-> <<>>, response |-> NoResponse, result |-> NoResponse, err |-> "none",
   attempts |-> 0]

\* A network call whose Content-Type is set whatever the caller passed.
HandedJson(c, opts) ==
  [call |-> c, url |-> UrlOf(c), body |-> opts.body,
   headers |-> [has |-> TRUE, ct |-> "application/json", xauth |-> opts.headers.xauth]]

\* The arguments of one call of the network primitive.
Handed(c, opts) ==
  [call |-> c, url |-> UrlOf(c), body |-> opts.body, headers |-> opts.headers]

\* options after the rewrite of body and Content-Type
Rewritten(opts, encrypted) ==
  [opts EXCEPT !.body = StringBody(JSONStringify(TransportForm(encrypted))),
               !.headers = [has |-> TRUE, ct |-> "application/json",
                            xauth |-> IF @.has THEN @.xauth ELSE NoHeader]]

setEnabled(enabled) ==
  /\ hist.ops < MaxOps
  /\ encryptionEnabled' = enabled
  /\ hist' = [hist EXCEPT !.ops = @ + 1]
  /\ UNCHANGED <<hostCrypto, storage, options, call, wire, proc, cm>>

\* fetch(url, options) from its start to `return fetch` or to the first
\* await inside getOrCreateKey.
FetchStart(c, opts) ==
  /\ call[c].pc = "idle"
  /\ options' = [options EXCEPT ![c] = opts]
  /\ IF ~ encryptionEnabled
     THEN /\ call' = [call EXCEPT ![c].pc = "delegated"]
          /\ wire' = Append(wire, Handed(c, opts))
          /\ UNCHANGED hist
     ELSE /\ wire' = wire
          /\ IF KeyMissing(getItem("encryption_key"))
             THEN /\ call' = [call EXCEPT ![c].pc = "generating"]
                  /\ hist' = LookedUp(hist)
             ELSE /\ call' = [call EXCEPT ![c].pc = "keyReady",
                                          ![c].key = getItem("encryption_key").val]
                  /\ hist' = Returned(LookedUp(hist), getItem("encryption_key").val)
  /\ UNCHANGED <<hostCrypto, storage, encryptionEnabled, proc, cm>>

\* getOrCreateKey, called by fetch, from the await of generateKey to its end.
FetchKeyGenerated(c, n) ==
  /\ call[c].pc = "generating"
  /\ LET Settle(key) ==
           IF key.ok
           THEN /\ storage' = setItem(storage, "encryption_key", key.val)
                /\ call' = [call EXCEPT ![c].pc = "keyReady", ![c].key = key.val]
                /\ hist' = Returned(hist, key.val)
           ELSE /\ call' = [call EXCEPT ![c].pc = "failed", ![c].err = key.err]
                /\ UNCHANGED <<storage, hist>>
     IN Settle(generateKey(n))
  /\ UNCHANGED <<hostCrypto, encryptionEnabled, options, wire, proc, cm>>

\* From the key to the first await after it: the encryption of the body, or
\* the network call when there is no string body to encrypt.
FetchPrepare(c) ==
  /\ call[c].pc = "keyReady"
  /\ LET Parsed(originalBody, json) ==
           IF originalBody.kind = "string" /\ originalBody.val # <<>>
           THEN /\ call' = [call EXCEPT
                              ![c].pc = IF json.ok THEN "encryptingObject"
                                        ELSE "encryptingText",
                              ![c].originalBody = originalBody,
                              ![c].json = IF json.ok THEN json.val ELSE JUndefined]
                /\ wire' = wire
           ELSE /\ call' = [call EXCEPT ![c].pc = "sent",
                                        ![c].originalBody = originalBody]
                /\ wire' = Append(wire, Handed(c, options[c]))
     IN Parsed(options[c].body, JSONParse(options[c].body.val))
  /\ UNCHANGED <<hostCrypto, storage, encryptionEnabled, options, proc, hist, cm>>

\* A fetch that writes the envelope into a copy of the options and leaves
\* the caller's object as it was.
FetchEncryptedObjectCopy(c, iv) ==
  /\ call[c].pc = "encryptingObject"
  /\ LET Settle(encrypted) ==
           IF encrypted.ok
           THEN /\ wire' = Append(wire, Handed(c, Rewritten(options[c], encrypted.val)))
                /\ call' = [call EXCEPT ![c].pc = "sent", ![c].attempts = @ + 1]
           ELSE /\ call' = [call EXCEPT ![c].pc = "encryptingText",
                                        ![c].attempts = @ + 1,
                                        ![c].json = JUndefined]
                /\ UNCHANGED wire
     IN Settle(encryptObject(call[c].json, call[c].key, iv))
  /\ UNCHANGED <<hostCrypto, storage, encryptionEnabled, options, proc, hist, cm>>

\* encryptObject settles (generateIV drew iv): the rewrite and the network
\* call, or the catch block, which encrypts the body as text.
FetchEncryptedObject(c, iv) ==
  /\ call[c].pc = "encryptingObject"
  /\ LET Settle(encrypted) ==
           IF encrypted.ok
           THEN /\ options' = [options EXCEPT ![c] = Rewritten(@, encrypted.val)]
                /\ wire' = Append(wire, Handed(c, Rewritten(options[c], encrypted.val)))
                /\ call' = [call EXCEPT ![c].pc = "sent", ![c].attempts = @ + 1]
           ELSE /\ call' = [call EXCEPT ![c].pc = "encryptingText",
                                        ![c].attempts = @ + 1,
                                        ![c].json = JUndefined]
                /\ UNCHANGED <<options, wire>>
     IN Settle(encryptObject(call[c].json, call[c].key, iv))
  /\ UNCHANGED <<hostCrypto, storage, encryptionEnabled, proc, hist, cm>>

\* A catch block that sends the body as it is when encrypt throws as well.
FetchEncryptedTextOrPlain(c, iv) ==
  /\ call[c].pc = "encryptingText"
  /\ LET Settle(encrypted) ==
           IF encrypted.ok
           THEN /\ options' = [options EXCEPT ![c] = Rewritten(@, encrypted.val)]
                /\ wire' = Append(wire, [call |-> c, url |-> UrlOf(c),
                                         body |-> Rewritten(options[c], encrypted.val).body,
                                         headers |-> Rewritten(options[c], encrypted.val).headers])
                /\ call' = [call EXCEPT ![c].pc = "sent", ![c].attempts = @ + 1]
           ELSE /\ wire' = Append(wire, [call |-> c, url |-> UrlOf(c),
                                         body |-> options[c].body,
                                         headers |-> options[c].headers])
                /\ call' = [call EXCEPT ![c].pc = "sent", ![c].attempts = @ + 1]
                /\ UNCHANGED options
     IN Settle(encrypt(call[c].originalBody.val, call[c].key, iv))
  /\ UNCHANGED <<hostCrypto, storage, encryptionEnabled, proc, hist, cm>>

\* encrypt settles (generateIV drew iv): the rewrite and the network call, or
\* the call throws.
FetchEncryptedText(c, iv) ==
  /\ call[c].pc = "encryptingText"
  /\ LET Settle(encrypted) ==
           IF encrypted.ok
           THEN /\ options' = [options EXCEPT ![c] = Rewritten(@, encrypted.val)]
                /\ wire' = Append(wire, Handed(c, Rewritten(options[c], encrypted.val)))
                /\ call' = [call EXCEPT ![c].pc = "sent", ![c].attempts = @ + 1]
           ELSE /\ call' = [call EXCEPT ![c].pc = "failed",
                                        ![c].err = encrypted.err,
                                        ![c].attempts = @ + 1]
                /\ UNCHANGED <<options, wire>>
     IN Settle(encrypt(call[c].originalBody.val, call[c].key, iv))
  /\ UNCHANGED <<hostCrypto, storage, encryptionEnabled, proc, hist, cm>>

\* The network primitive fulfils its promise with a response.  A delegated
\* call returned that promise itself.
TransportResponds(c, response) ==
  /\ call[c].pc \in {"sent", "delegated"}
  /\ call' = IF call[c].pc = "delegated"
             THEN [call EXCEPT ![c].pc = "done", ![c].response = response,
                               ![c].result = response]
             ELSE [call EXCEPT ![c].pc = "responded", ![c].response = response]
  /\ UNCHANGED <<hostCrypto, storage, encryptionEnabled, options, wire, proc, hist, cm>>

\* The network primitive rejects its promise.
TransportFails(c) ==
  /\ call[c].pc \in {"sent", "delegated"}
  /\ call' = [call EXCEPT ![c].pc = "failed", ![c].err = E_NETWORK]
  /\ UNCHANGED <<hostCrypto, storage, encryptionEnabled, options, wire, proc, hist, cm>>

\* From the response to response.json(), which takes the body, or to
\* `return response`.
FetchInspect(c) ==
  /\ call[c].pc = "responded"
  /\ call' = IF IsJsonContentType(call[c].response.headers.ct)
             THEN [call EXCEPT ![c].pc = "readingJson", ![c].response.bodyUsed = TRUE]
             ELSE [call EXCEPT ![c].pc = "done", ![c].result = call[c].response]
  /\ UNCHANGED <<hostCrypto, storage, encryptionEnabled, options, wire, proc, hist, cm>>

\* response.json() settles: the test data.encrypted && data.data.
FetchJsonRead(c) ==
  /\ call[c].pc = "readingJson"
  /\ LET Test(data) ==
           IF ~ data.ok
             THEN [call EXCEPT ![c].pc = "failed", ![c].err = data.err]
           ELSE IF data.val.t = "null"
             THEN [call EXCEPT ![c].pc = "failed", ![c].err = E_TYPE]
           ELSE IF Truthy(GetProp(data.val, P_encrypted))
                   /\ Truthy(GetProp(data.val, P_data))
             THEN [call EXCEPT ![c].pc = "decrypting",
                               ![c].data = ToStringJS(GetProp(data.val, P_data))]
           ELSE [call EXCEPT ![c].pc = "done", ![c].result = call[c].response]
     IN call' = Test(JSONParse(call[c].response.body))
  /\ UNCHANGED <<hostCrypto, storage, encryptionEnabled, options, wire, proc, hist, cm>>

\* A new Response built without its init argument: status 200, no
\* statusText, headers of its own.
FetchDecryptedBare(c) ==
  /\ call[c].pc = "decrypting"
  /\ LET Settle(decrypted) ==
           IF decrypted.ok
           THEN [call EXCEPT ![c].pc = "done",
                             ![c].result =
                               [by |-> "wrapper", status |-> 200, statusText |-> "",
                                headers |-> [ct |-> "text/plain;charset=UTF-8",
                                             xid |-> NoHeader],
                                body |-> JSONStringify(decrypted.val),
                                bodyUsed |-> FALSE]]
           ELSE [call EXCEPT ![c].pc = "failed", ![c].err = decrypted.err]
     IN call' = Settle(decryptObject(call[c].data, call[c].key))
  /\ UNCHANGED <<hostCrypto, storage, encryptionEnabled, options, wire, proc, hist, cm>>

\* A fetch that decrypts with the key the slot holds when the response
\* arrives.
FetchDecryptedStoredKey(c) ==
  /\ call[c].pc = "decrypting"
  /\ LET Settle(decrypted) ==
           IF decrypted.ok
           THEN [call EXCEPT ![c].pc = "done",
                             ![c].result =
                               [by |-> "wrapper",
                                status |-> call[c].response.status,
                                statusText |-> call[c].response.statusText,
                                headers |-> call[c].response.headers,
                                body |-> JSONStringify(decrypted.val),
                                bodyUsed |-> FALSE]]
           ELSE [call EXCEPT ![c].pc = "failed", ![c].err = decrypted.err]
     IN call' = Settle(decryptObject(call[c].data, getItem("encryption_key").val))
  /\ UNCHANGED <<hostCrypto, storage, encryptionEnabled, options, wire, proc, hist, cm>>

\* decryptObject settles: the new Response, or the call throws.
FetchDecrypted(c) ==
  /\ call[c].pc = "decrypting"
  /\ LET Settle(decrypted) ==
           IF decrypted.ok
           THEN [call EXCEPT ![c].pc = "done",
                             ![c].result =
                               [by |-> "wrapper",
                                status |-> call[c].response.status,
                                statusText |-> call[c].response.statusText,
                                headers |-> call[c].response.headers,
                                body |-> JSONStringify(decrypted.val),
                                bodyUsed |-> FALSE]]
           ELSE [call EXCEPT ![c].pc = "failed", ![c].err = decrypted.err]
     IN call' = Settle(decryptObject(call[c].data, call[c].key))
  /\ UNCHANGED <<hostCrypto, storage, encryptionEnabled, options, wire, proc, hist, cm>>

\* fetch(url, options) called with the options object that call c, now
\* settled, was given: from its start to `return fetch` or to the first
\* await inside getOrCreateKey.
FetchReuse(c) ==
  /\ call[c].pc \in {"done", "failed"}
  /\ options[c].passed
  /\ hist.reuses < MaxReuse
  /\ LET Noted(h) ==
           [h EXCEPT !.reuses = @ + 1,
                     !.reused = IF h.reuses = 0 THEN call[c].originalBody ELSE @]
     IN IF ~ encryptionEnabled
        THEN /\ call' = [call EXCEPT ![c] = [CallIdle EXCEPT !.pc = "delegated"]]
             /\ wire' = Append(wire, Handed(c, options[c]))
             /\ hist' = Noted(hist)
        ELSE /\ wire' = wire
             /\ IF KeyMissing(getItem("encryption_key"))
                THEN /\ call' = [call EXCEPT ![c] = [CallIdle EXCEPT !.pc = "generating"]]
                     /\ hist' = Noted(LookedUp(hist))
                ELSE /\ call' = [call EXCEPT ![c] =
                                   [CallIdle EXCEPT !.pc = "keyReady",
                                                    !.key = getItem("encryption_key").val]]
                     /\ hist' = Noted(Returned(LookedUp(hist),
                                               getItem("encryption_key").val))
  /\ UNCHANGED <<hostCrypto, storage, encryptionEnabled, options, proc, cm>>

\* ------------------------------------------------------------------------
\* The host application calling fetch and the key store
\* ------------------------------------------------------------------------
CmIdle ==
  [pc |-> "idle", op |-> "none", input |-> JUndefined, key |-> <<>>,
   encrypted |-> Err("none"), dop |-> "none", key2 |-> <<>>, given |-> <<>>,
   decrypted |-> Err("none"), imported |-> Err("none"), log |-> <<>>]

Init ==
  /\ hostCrypto \in BOOLEAN
  /\ storage = [encryption_key |-> Null, seed_phrase |-> Null]
  /\ encryptionEnabled = TRUE
  /\ options = [c \in 1..MaxCalls |-> NoOptions]
  /\ call = [c \in 1..MaxCalls |-> CallIdle]
  /\ wire = <<>>
  /\ proc = <<>>
  /\ hist = HistInit
  /\ cm = CmIdle

Next ==
  \/ \E key \in SavedKeys : SaveKey(key)
  \/ ClearKey
  \/ \E seedPhrase \in SeedPhrases : SaveSeedPhrase(seedPhrase)
  \/ \E enabled \in BOOLEAN : setEnabled(enabled)
  \/ \E c \in DOMAIN call, opts \in OptionChoices : FetchStart(c, opts)
  \/ \E c \in DOMAIN call, n \in 1..MaxGenKeys : FetchKeyGenerated(c, n)
  \/ \E c \in DOMAIN call : FetchPrepare(c)
  \/ \E c \in DOMAIN call, iv \in IVs : FetchEncryptedObject(c, iv)
  \/ \E c \in DOMAIN call, iv \in IVs : FetchEncryptedText(c, iv)
  \/ \E c \in DOMAIN call, response \in Responses : TransportResponds(c, response)
  \/ \E c \in DOMAIN call : TransportFails(c)
  \/ \E c \in DOMAIN call : FetchInspect(c)
  \/ \E c \in DOMAIN call : FetchJsonRead(c)
  \/ \E c \in DOMAIN call : FetchDecrypted(c)

Spec == Init /\ [][Next]_vars

\* ------------------------------------------------------------------------
\* The host application passing one options object to fetch again
\* ------------------------------------------------------------------------
NextReuse ==
  \/ \E c \in DOMAIN call, opts \in OptionChoices : FetchStart(c, opts)
  \/ \E c \in DOMAIN call : FetchReuse(c)
  \/ \E c \in DOMAIN call, n \in 1..MaxGenKeys : FetchKeyGenerated(c, n)
  \/ \E c \in DOMAIN call : FetchPrepare(c)
  \/ \E c \in DOMAIN call, iv \in IVs : FetchEncryptedObject(c, iv)
  \/ \E c \in DOMAIN call, iv \in IVs : FetchEncryptedText(c, iv)
  \/ \E c \in DOMAIN call, response \in Responses : TransportResponds(c, response)
  \/ \E c \in DOMAIN call : TransportFails(c)
  \/ \E c \in DOMAIN call : FetchInspect(c)
  \/ \E c \in DOMAIN call : FetchJsonRead(c)
  \/ \E c \in DOMAIN call : FetchDecrypted(c)

SpecReuse == Init /\ [][NextReuse]_vars

\* ------------------------------------------------------------------------
\* The host application calling EncryptionStorage directly
\* ------------------------------------------------------------------------
InitStore ==
  /\ hostCrypto \in BOOLEAN
  /\ storage = [encryption_key |-> Null, seed_phrase |-> Null]
  /\ encryptionEnabled = TRUE
  /\ options = <<>>
  /\ call = <<>>
  /\ wire = <<>>
  /\ proc = [p \in 1..MaxProcs |-> ProcIdle]
  /\ hist = HistInit
  /\ cm = CmIdle

NextStore ==
  \/ \E key \in SavedKeys : SaveKey(key)
  \/ ClearKey
  \/ \E seedPhrase \in SeedPhrases : SaveSeedPhrase(seedPhrase)
  \/ \E p \in DOMAIN proc : GetOrCreateKeyStart(p)
  \/ \E p \in DOMAIN proc, n \in 1..MaxGenKeys : GetOrCreateKeyFinish(p, n)

SpecStore == InitStore /\ [][NextStore]_vars

\* ------------------------------------------------------------------------
\* The host application calling CryptoManager directly
\* ------------------------------------------------------------------------
\* Plaintexts: empty, ASCII, JSON text, an embedded NUL, multibyte
\* characters, a surrogate pair, a leading U+FEFF, a surrogate without its
\* partner.
Plaintexts ==
  { <<>>, B_TEXT, B_JSON,
    Txt(<<"a", "NUL", "b">>),
    Txt(<<"EACUTE", "EURO">>),
    Txt(<<"HI", "LO">>),
    B_BOM,
    Txt(<<"a", "HI">>) }

\* JSON-serialisable values, as a sequence: values of different types are
\* not elements of one set.
Objects ==
  << JObj(<< <<Txt(<<"x">>), JNum(1)>> >>),
    JObj(<< <<Txt(<<"a">>), JArr(<<JNum(-12), JNull, JBool(FALSE)>>)>>,
            <<Txt(<<"b">>), JStr(Txt(<<"q", "\\", "NUL", "EURO">>))>> >>),
    JArr(<<>>),
    JStr(B_BOM),
    JStr(Txt(<<"a", "HI">>)),
    JNum(0),
    JNull >>

\* Encoded keys: generated ones, and a string that encodes no key.
Base64Keys ==
  {arrayBufferToBase64(k) : k \in GenKeys} \cup {Txt(<<"a", "b", "c">>)}

\* cm.log: one entry for every envelope produced so far, with the key and the
\* plaintext the call was given and the IV generateIV drew in it.
Logged(log, plaintext, base64Key, iv, encrypted) ==
  IF encrypted.ok
  THEN Append(log, [key |-> base64Key, plaintext |-> plaintext, drawn |-> iv,
                    envelope |-> encrypted.val])
  ELSE log

\* cryptoManager.encrypt(plaintext, base64Key) settles; generateIV drew iv.
\* The host application calls it when no call is pending.
Encrypt(plaintext, base64Key, iv) ==
  /\ cm.pc \in {"idle", "encrypted", "decrypted"}
  /\ Len(cm.log) < MaxEncrypts
  /\ cm' = [CmIdle EXCEPT !.pc = "encrypted", !.op = "encrypt", !.input = plaintext,
                          !.key = base64Key,
                          !.encrypted = encrypt(plaintext, base64Key, iv),
                          !.log = Logged(cm.log, plaintext, base64Key, iv,
                                         encrypt(plaintext, base64Key, iv))]
  /\ UNCHANGED <<hostCrypto, storage, encryptionEnabled, options, call, wire, proc, hist>>

\* cryptoManager.encryptObject(obj, base64Key) settles; generateIV drew iv.
EncryptObject(obj, base64Key, iv) ==
  /\ cm.pc = "idle"
  /\ cm' = [cm EXCEPT !.pc = "encrypted", !.op = "encryptObject", !.input = obj,
                      !.key = base64Key,
                      !.encrypted = encryptObject(obj, base64Key, iv)]
  /\ UNCHANGED <<hostCrypto, storage, encryptionEnabled, options, call, wire, proc, hist>>

\* What reaches decrypt in place of the envelope encrypt produced: the
\* envelope itself, the envelope with one character of its ciphertext portion
\* altered, the envelope without its last four characters, and a buffer
\* shorter than the IV.
Presented(envelope) ==
  IF Len(envelope) < 20 THEN {envelope}
  ELSE { envelope, Tampered(envelope),
         SubSeq(envelope, 1, Len(envelope) - 4),
         SubSeq(envelope, 1, 8) }

\* cryptoManager.decrypt(encryptedBase64, base64Key) settles.
Decrypt(encryptedBase64, base64Key) ==
  /\ cm.pc = "encrypted"
  /\ cm.encrypted.ok
  /\ cm' = [cm EXCEPT !.pc = "decrypted", !.dop = "decrypt", !.key2 = base64Key,
                      !.given = encryptedBase64,
                      !.decrypted = decrypt(encryptedBase64, base64Key)]
  /\ UNCHANGED <<hostCrypto, storage, encryptionEnabled, options, call, wire, proc, hist>>

\* cryptoManager.decryptObject(encryptedBase64, base64Key) settles.
DecryptObject(encryptedBase64, base64Key) ==
  /\ cm.pc = "encrypted"
  /\ cm.encrypted.ok
  /\ cm' = [cm EXCEPT !.pc = "decrypted", !.dop = "decryptObject", !.key2 = base64Key,
                      !.given = encryptedBase64,
                      !.decrypted = decryptObject(encryptedBase64, base64Key)]
  /\ UNCHANGED <<hostCrypto, storage, encryptionEnabled, options, call, wire, proc, hist>>

\* What the host application passes to importKey: encoded keys of 256, 192
\* and 128 bits, a string that decodes to two bytes, the empty string, text
\* that is not base64.
ImportInputs ==
  Base64Keys
    \cup {arrayBufferToBase64([i \in 1..n |-> 1]) : n \in {16, 24}}
    \cup {<<>>, Txt(<<"{", "}">>)}

\* cryptoManager.importKey(base64Key) settles.
ImportKey(base64Key) ==
  /\ cm.pc = "idle"
  /\ cm' = [cm EXCEPT !.pc = "imported", !.op = "importKey", !.key = base64Key,
                      !.imported = importKey(base64Key)]
  /\ UNCHANGED <<hostCrypto, storage, encryptionEnabled, options, call, wire, proc, hist>>

InitCrypto ==
  /\ hostCrypto \in BOOLEAN
  /\ storage = [encryption_key |-> Null, seed_phrase |-> Null]
  /\ encryptionEnabled = TRUE
  /\ options = <<>>
  /\ call = <<>>
  /\ wire = <<>>
  /\ proc = <<>>
  /\ hist = HistInit
  /\ cm = CmIdle

NextCrypto ==
  \/ \E base64Key \in ImportInputs : ImportKey(base64Key)
  \/ \E plaintext \in Plaintexts, base64Key \in Base64Keys, iv \in IVs :
       Encrypt(plaintext, base64Key, iv)
  \/ \E j \in DOMAIN Objects, base64Key \in Base64Keys, iv \in IVs :
       EncryptObject(Objects[j], base64Key, iv)
  \/ \E encryptedBase64 \in Presented(cm.encrypted.val), base64Key \in Base64Keys :
       Decrypt(encryptedBase64, base64Key)
  \/ \E encryptedBase64 \in Presented(cm.encrypted.val), base64Key \in Base64Keys :
       DecryptObject(encryptedBase64, base64Key)

SpecCrypto == InitCrypto /\ [][NextCrypto]_vars

\* ------------------------------------------------------------------------
\* Properties
\* ------------------------------------------------------------------------

\* C1: every request of a call with encryption enabled and a non-empty string
\* body reaches the network primitive in the transport form {encrypted: true,
\* data: E} with Content-Type application/json, never as the plaintext, and
\* decrypting E with the call's key gives back the original body: its JSON
\* value when the body parses as JSON, the raw text otherwise.
C1_RequestBodyEncrypted ==
  \A i \in DOMAIN wire :
    LET c == wire[i].call
        original == call[c].originalBody
        sent == JSONParse(wire[i].body.val)
        E == GetProp(sent.val, P_data)
        json == JSONParse(original.val)
    IN (original.kind = "string" /\ original.val # <<>>) =>
         /\ wire[i].body.kind = "string"
         /\ wire[i].body.val # original.val
         /\ sent.ok
         /\ E.t = "str"
         /\ sent.val = TransportForm(E.v)
         /\ wire[i].headers.ct = "application/json"
         /\ IF json.ok
            THEN decryptObject(E.v, call[c].key) = Ok(json.val)
            ELSE decrypt(E.v, call[c].key) = Ok(original.val)

\* C2: when the encryption of the request body fails, the call fails with
\* the encryption error, the network primitive is never called for it and
\* the call has no response.
C2_EncryptionFailureFatal ==
  \A c \in DOMAIN call :
    /\ (call[c].attempts > 0 /\ ~ importKey(call[c].key).ok) =>
         /\ call[c].pc \in {"encryptingText", "failed"}
         /\ call[c].pc = "failed" => call[c].err = E_ENCRYPT
    /\ (call[c].err = E_ENCRYPT) =>
         /\ call[c].pc = "failed"
         /\ \A i \in DOMAIN wire : wire[i].call # c
         /\ call[c].response = NoResponse
         /\ call[c].result = NoResponse

\* C2's case: both the JSON envelope and the raw text envelope failed.
C2_Witness ==
  \E c \in DOMAIN call :
    /\ call[c].pc = "failed"
    /\ call[c].err = E_ENCRYPT
    /\ call[c].attempts = 2
    /\ options[c].body = StringBody(B_JSON)
    /\ wire = <<>>

\* C3: with encryption enabled on a host that provides crypto.subtle, a
\* response with a JSON content type whose body is the transport form of an
\* object encrypted under the call's key
\* makes fetch return a response whose JSON body is that object and whose
\* status, statusText and headers are those of the original response.
C3_ResponseDecrypted ==
  \A c \in DOMAIN call :
    \A k \in GenKeys :
      ( /\ hostCrypto
        /\ call[c].pc \in {"done", "failed"}
        /\ call[c].key = arrayBufferToBase64(k)
        /\ IsJsonContentType(call[c].response.headers.ct)
        /\ call[c].response.body
             = JSONStringify(TransportForm(ServerEnvelope(B_BALANCE, k))) )
      =>
      ( /\ call[c].pc = "done"
        /\ call[c].result.by = "wrapper"
        /\ ReadJson(call[c].result) = JSONParse(B_BALANCE)
        /\ call[c].result.status = call[c].response.status
        /\ call[c].result.statusText = call[c].response.statusText
        /\ call[c].result.headers = call[c].response.headers )

\* C3's case: an encrypted response with status 500 was decrypted.
C3_Witness ==
  \E c \in DOMAIN call :
    /\ call[c].pc = "done"
    /\ call[c].result.by = "wrapper"
    /\ call[c].result.status = 500
    /\ call[c].result.body = B_BALANCE
    /\ call[c].response.body
         = JSONStringify(TransportForm(ServerEnvelope(B_BALANCE, KeyOf(1))))

\* C4: with encryption enabled, when the response's body matches the
\* transport form (encrypted is true and a data property is present) and
\* decrypting its data fails, the call fails: the caller gets no response.
C4_DecryptionFailureSurfaces ==
  \A c \in DOMAIN call :
    LET data == JSONParse(call[c].response.body)
    IN ( /\ call[c].pc \in {"done", "failed"}
         /\ call[c].key # <<>>
         /\ IsJsonContentType(call[c].response.headers.ct)
         /\ data.ok
         /\ data.val.t = "obj"
         /\ GetProp(data.val, P_encrypted).t = "bool"
         /\ GetProp(data.val, P_encrypted).v
         /\ GetProp(data.val, P_data).t = "str"
         /\ ~ decryptObject(GetProp(data.val, P_data).v, call[c].key).ok )
       =>
       ( /\ call[c].pc = "failed"
         /\ call[c].result = NoResponse )

\* C5: with encryption enabled, a response with a JSON content type whose
\* body does not match the transport form is returned as the transport
\* delivered it, and the caller's read of its JSON body gives the value the
\* transport delivered.
C5_PlainJsonPassedThrough ==
  \A c \in DOMAIN call :
    LET data == JSONParse(call[c].response.body)
    IN ( /\ call[c].pc \in {"done", "failed"}
         /\ call[c].key # <<>>
         /\ IsJsonContentType(call[c].response.headers.ct)
         /\ data.ok
         /\ ~ ( /\ data.val.t = "obj"
                /\ GetProp(data.val, P_encrypted).t = "bool"
                /\ GetProp(data.val, P_encrypted).v
                /\ GetProp(data.val, P_data).t # "undefined" ) )
       =>
       ( /\ call[c].pc = "done"
         /\ call[c].result.by = "transport"
         /\ call[c].result = [call[c].response EXCEPT !.bodyUsed = FALSE]
         /\ ReadJson(call[c].result).ok
         /\ ReadJson(call[c].result).val = data.val )

\* C6: with encryptionEnabled false, fetch calls the network primitive with
\* the caller's url and options as they are, reads and writes neither slot of
\* the store, leaves the options alone and returns the transport's response.
C6_DisabledDelegates ==
  [][\A c \in DOMAIN call :
       /\ (call[c].pc = "idle" /\ call'[c].pc # "idle" /\ ~ encryptionEnabled) =>
            /\ call'[c].pc = "delegated"
            /\ wire' = Append(wire, [call |-> c, url |-> UrlOf(c),
                                     body |-> options'[c].body,
                                     headers |-> options'[c].headers])
            /\ storage' = storage
            /\ hist' = hist
       /\ (call[c].pc = "delegated" /\ call'[c] # call[c]) =>
            /\ call'[c].pc \in {"done", "failed"}
            /\ wire' = wire
            /\ storage' = storage
            /\ hist' = hist
            /\ options' = options
            /\ call'[c].pc = "done" =>
                 /\ call'[c].result = call'[c].response
                 /\ call'[c].result \in Responses]_vars

\* C6's case: a call made with encryption disabled has returned.
C6_Witness ==
  \E c \in DOMAIN call :
    /\ ~ encryptionEnabled
    /\ call[c].pc = "done"
    /\ call[c].key = <<>>
    /\ options[c] = Options(StringBody(B_JSON), Headers("text/plain", "token"))
    /\ wire = <<[call |-> c, url |-> UrlOf(c), body |-> StringBody(B_JSON),
                 headers |-> Headers("text/plain", "token")]>>
    /\ call[c].result = TransportResponse(200, "OK", "application/json", B_JSON)
    /\ storage = [encryption_key |-> Null, seed_phrase |-> Null]
    /\ hist.lookups = 0

\* C7 as stated: a getOrCreateKey call that starts after another one returned,
\* with no clearKey in between, returns the key that one returned.
C7_SameKeyUnlessCleared ==
  [][\A p \in DOMAIN proc :
       (proc[p].pc = "idle" /\ proc'[p].pc = "returned" /\ hist.sinceClear.has) =>
         proc'[p].key = hist.sinceClear.val]_vars

\* C7: a getOrCreateKey call that starts after another one returned, with no
\* write of the encryption_key slot in between (saveKey, clearKey, the write
\* of a call that generated), returns the key that one returned; and a call
\* that finds a non-empty value in the slot returns it without generating
\* and without writing the store.
C7_SameKeyUnlessWritten ==
  [][\A p \in DOMAIN proc :
       /\ (proc[p].pc = "idle" /\ proc'[p].pc = "returned" /\ hist.sinceWrite.has) =>
            proc'[p].key = hist.sinceWrite.val
       /\ (proc[p].pc = "idle" /\ proc'[p].pc # "idle"
             /\ storage.encryption_key.has /\ storage.encryption_key.val # <<>>) =>
            /\ proc'[p].pc = "returned"
            /\ proc'[p].key = storage.encryption_key.val
            /\ storage' = storage
       /\ hist.sinceWrite.has => storage.encryption_key = hist.sinceWrite]_vars

\* C7's case: a call generated a key, a second call found it and returned it.
C7_Witness ==
  \E p, q \in DOMAIN proc :
    /\ p # q
    /\ proc[p].pc = "returned" /\ ~ proc[p].read.has
    /\ proc[q].pc = "returned" /\ proc[q].read = Str(proc[p].key)
    /\ proc[q].key = proc[p].key
    /\ storage.encryption_key = Str(proc[p].key)
    /\ hist.ops = 0

\* C8: two getOrCreateKey calls that both read the slot as absent return the
\* same key, and it is the key the slot holds once both have returned.
C8_RacingCallsConverge ==
  \A p, q \in DOMAIN proc :
    ( /\ proc[p].pc = "returned" /\ ~ proc[p].read.has
      /\ proc[q].pc = "returned" /\ ~ proc[q].read.has
      /\ hist.ops = 0 )
    =>
    ( /\ proc[p].key = proc[q].key
      /\ storage.encryption_key = Str(proc[p].key) )

\* C9: clearKey leaves both slots absent, so that hasKey() is false and
\* getSeedPhrase() is null; a getOrCreateKey that then reads the slot
\* generates a key, and when the generation succeeds it persists that key
\* and returns it.
C9_ClearKeyRemovesBoth ==
  [][/\ ClearKey =>
          /\ storage'.encryption_key = Null
          /\ storage'.seed_phrase = Null
          /\ ~ hasKey'
          /\ getSeedPhrase' = Null
     /\ \A p \in DOMAIN proc :
          /\ (proc[p].pc = "idle" /\ proc'[p].pc # "idle" /\ ~ hasKey) =>
               /\ proc'[p].pc = "generating"
               /\ storage' = storage
          /\ (proc[p].pc = "generating" /\ proc'[p].pc # "generating" /\ hostCrypto) =>
               /\ proc'[p].pc = "returned"
               /\ proc'[p].key \in {arrayBufferToBase64(k) : k \in GenKeys}
               /\ storage'.encryption_key = Str(proc'[p].key)
               /\ hasKey']_vars

\* C9's case: a key and a seed phrase were stored, clearKey removed both, and
\* the next getOrCreateKey is generating.
C9_Witness ==
  \E p, q \in DOMAIN proc :
    /\ proc[p].pc = "returned"
    /\ hist.sinceClear = Null
    /\ hist.ops = 2
    /\ storage = [encryption_key |-> Null, seed_phrase |-> Null]
    /\ proc[q].pc = "generating"

\* C10: decrypt(encrypt(p, k), k) returns p for every plaintext p and every
\* valid key k, and decryptObject(encryptObject(o, k), k) returns o for every
\* JSON-serialisable o.
C10_RoundTrip ==
  (cm.pc = "decrypted" /\ cm.key2 = cm.key /\ cm.given = cm.encrypted.val) =>
    /\ (cm.op = "encrypt" /\ cm.dop = "decrypt") => cm.decrypted = Ok(cm.input)
    /\ (cm.op = "encryptObject" /\ cm.dop = "decryptObject") =>
         cm.decrypted = Ok(cm.input)

\* C11: decrypt returns a plaintext only when it is given the envelope that
\* encrypt produced, unmodified, with the key encrypt was given; given another
\* key, an envelope whose ciphertext portion was altered or cut, or a buffer
\* shorter than the IV, it throws the one decryption Error, and it throws no
\* other.
C11_DecryptAuthenticates ==
  (cm.pc = "decrypted" /\ cm.dop = "decrypt") =>
    /\ cm.decrypted.ok => (cm.given = cm.encrypted.val /\ cm.key2 = cm.key)
    /\ (cm.given # cm.encrypted.val \/ cm.key2 # cm.key) => cm.decrypted = Err(E_DECRYPT)
    /\ ~ cm.decrypted.ok => cm.decrypted = Err(E_DECRYPT)

\* C11's case: an envelope of a non-empty plaintext with one character of its
\* ciphertext altered was given to decrypt with the right key, and decrypt
\* threw.
C11_Witness ==
  /\ cm.pc = "decrypted" /\ cm.dop = "decrypt"
  /\ cm.op = "encrypt" /\ cm.input = B_TEXT
  /\ cm.key2 = cm.key
  /\ cm.given = Tampered(cm.encrypted.val)
  /\ cm.decrypted = Err(E_DECRYPT)

\* C12: importKey succeeds only for an input that decodes to exactly
\* KeyLength bits of key material, and throws the key-format Error for every
\* other input: an encoded key of 128 or 192 bits, the empty string, text
\* that is not base64.
C12_ImportKeyExactLength ==
  (cm.pc = "imported") =>
    /\ cm.imported.ok =>
          /\ base64ToArrayBuffer(cm.key).ok
          /\ Len(base64ToArrayBuffer(cm.key).val) * 8 = KeyLength
    /\ ~ ( /\ base64ToArrayBuffer(cm.key).ok
           /\ Len(base64ToArrayBuffer(cm.key).val) * 8 = KeyLength ) =>
          cm.imported = Err(E_KEYFORMAT)

\* C13 as stated: no two envelopes produced by encrypt under the same key
\* carry the same IV.
C13_NoIVReuse ==
  \A i, j \in DOMAIN cm.log :
    (i < j /\ cm.log[i].key = cm.log[j].key) =>
      SubSeq(base64ToArrayBuffer(cm.log[i].envelope).val, 1, ivLength)
        # SubSeq(base64ToArrayBuffer(cm.log[j].envelope).val, 1, ivLength)

\* C13: every encrypt call that produces an envelope drew its own IV of
\* ivLength bytes from generateIV inside the call, and the envelope's first
\* ivLength bytes are that IV; two envelopes produced under the same key
\* carry the same IV only when generateIV returned the same bytes in both
\* calls, and envelopes whose IVs differ are different strings.
C13_IVDrawnPerCall ==
  \A i, j \in DOMAIN cm.log :
    /\ cm.log[i].drawn \in IVs
    /\ Len(cm.log[i].drawn) = ivLength
    /\ base64ToArrayBuffer(cm.log[i].envelope).ok
    /\ SubSeq(base64ToArrayBuffer(cm.log[i].envelope).val, 1, ivLength) = cm.log[i].drawn
    /\ (i < j /\ cm.log[i].key = cm.log[j].key /\ cm.log[i].drawn # cm.log[j].drawn) =>
         /\ SubSeq(base64ToArrayBuffer(cm.log[i].envelope).val, 1, ivLength)
              # SubSeq(base64ToArrayBuffer(cm.log[j].envelope).val, 1, ivLength)
         /\ cm.log[i].envelope # cm.log[j].envelope

\* C13's case: one plaintext encrypted twice under one key, generateIV
\* returning different bytes in the two calls.
C13_Witness ==
  /\ Len(cm.log) = 2
  /\ cm.log[1].key = cm.log[2].key
  /\ cm.log[1].plaintext = B_TEXT /\ cm.log[2].plaintext = B_TEXT
  /\ cm.log[1].drawn # cm.log[2].drawn
  /\ cm.log[1].envelope # cm.log[2].envelope

\* C14: when response.json() has settled with a parsed body, fetch goes on to
\* decrypt exactly when the body is an object whose encrypted is the boolean
\* true and which has a data property (an empty one included); for every
\* other body (encrypted 1, a body that is null) it returns the transport's
\* response and the call does not fail.
C14_StrictEnvelopeTest ==
  [][\A c \in DOMAIN call :
       LET data == JSONParse(call[c].response.body)
           strict == /\ data.val.t = "obj"
                     /\ GetProp(data.val, P_encrypted).t = "bool"
                     /\ GetProp(data.val, P_encrypted).v
                     /\ GetProp(data.val, P_data).t # "undefined"
       IN (call[c].pc = "readingJson" /\ call'[c].pc # "readingJson" /\ data.ok) =>
            IF strict
            THEN call'[c].pc = "decrypting"
            ELSE /\ call'[c].pc = "done"
                 /\ call'[c].result.by = "transport"]_vars

\* C15: a fetch call with encryption enabled reads the encryption_key slot
\* once, when it starts, and takes the value the slot holds then; from the
\* moment it has its key the call keeps that key, reads the slot no more and
\* never writes the store; the envelope it dispatches was encrypted with that
\* key and the response is decrypted with that key, whatever the slot holds
\* by then.
C15_OneKeyPerCall ==
  [][\A c \in DOMAIN call :
       /\ (call[c].pc = "idle" /\ call'[c].pc # "idle" /\ encryptionEnabled) =>
            /\ hist'.lookups = hist.lookups + 1
            /\ storage' = storage
            /\ call'[c].pc \in {"generating", "keyReady"}
            /\ call'[c].pc = "keyReady" =>
                 call'[c].key = storage.encryption_key.val
       /\ (call[c].pc = "generating" /\ call'[c].pc # call[c].pc) =>
            /\ hist'.lookups = hist.lookups
            /\ call'[c].pc = "keyReady" =>
                 storage'.encryption_key = Str(call'[c].key)
       /\ (call[c].pc \notin {"idle", "generating", "delegated"} /\ call'[c].pc # call[c].pc) =>
            /\ call'[c].key = call[c].key
            /\ hist'.lookups = hist.lookups
            /\ storage' = storage
       /\ (call[c].pc \in {"encryptingObject", "encryptingText"}
             /\ call'[c].pc = "sent") =>
            /\ Len(wire') = Len(wire) + 1
            /\ decrypt(GetProp(JSONParse(wire'[Len(wire')].body.val).val, P_data).v,
                       call[c].key).ok
       /\ (call[c].pc = "decrypting" /\ call'[c].pc # call[c].pc) =>
            IF decryptObject(call[c].data, call[c].key).ok
            THEN /\ call'[c].pc = "done"
                 /\ call'[c].result.body
                      = JSONStringify(decryptObject(call[c].data, call[c].key).val)
            ELSE call'[c].pc = "failed"]_vars

\* C15's case: a call encrypted its request and decrypted its response while
\* the slot, cleared during the call, no longer held the call's key.
C15_Witness ==
  \E c \in DOMAIN call :
    /\ call[c].pc = "done"
    /\ call[c].attempts = 1
    /\ call[c].result.by = "wrapper"
    /\ call[c].key = arrayBufferToBase64(KeyOf(1))
    /\ storage.encryption_key = Null
    /\ hist.lookups = 1

\* C16: within one fetch call the encryption of the request is attempted at
\* most once and the network primitive is called at most once; a call that
\* is resolving its key or encrypting has dispatched nothing yet.
C16_NoStepRetried ==
  \A c \in DOMAIN call :
    /\ call[c].attempts <= 1
    /\ \A i, j \in DOMAIN wire : (wire[i].call = c /\ wire[j].call = c) => i = j
    /\ call[c].pc \in {"idle", "generating", "keyReady", "encryptingObject",
                       "encryptingText"} =>
         \A i \in DOMAIN wire : wire[i].call # c

\* C17: on a host without crypto.subtle a fetch call with encryption enabled
\* fails before it does anything else: no call ever holds a key or gets past
\* the resolution of its key, and no call fails with one of the Errors that
\* generateKey, importKey, encrypt and decrypt throw (the failure is that of
\* the capability probe).
C17_ProbeBeforeOperation ==
  ~ hostCrypto =>
    \A c \in DOMAIN call :
      /\ call[c].key = <<>>
      /\ call[c].pc \in {"idle", "delegated", "generating", "failed", "done"}
      /\ call[c].err \notin {E_KEYGEN, E_KEYFORMAT, E_ENCRYPT, E_DECRYPT}

\* C18: on a host that provides crypto.subtle, encrypt and decrypt given a
\* string that is no key throw the key-format Error of importKey; decrypt
\* given a key and an envelope whose tag does not verify throws the
\* decryption Error; decryptObject given an envelope whose plaintext is not
\* JSON throws an error that is none of the four Errors of CryptoManager.
C18_FailurePerCause ==
  hostCrypto =>
    /\ (cm.pc \in {"encrypted", "decrypted"} /\ ~ importKey(cm.key).ok) =>
         cm.encrypted = Err(E_KEYFORMAT)
    /\ (cm.pc = "decrypted" /\ ~ importKey(cm.key2).ok) =>
         cm.decrypted = Err(E_KEYFORMAT)
    /\ (cm.pc = "decrypted" /\ importKey(cm.key2).ok
          /\ (cm.key2 # cm.key \/ cm.given # cm.encrypted.val)) =>
         cm.decrypted = Err(E_DECRYPT)
    /\ (cm.pc = "decrypted" /\ cm.dop = "decryptObject" /\ cm.key2 = cm.key
          /\ cm.given = cm.encrypted.val
          /\ ~ JSONParse(decrypt(cm.given, cm.key2).val).ok) =>
         /\ ~ cm.decrypted.ok
         /\ cm.decrypted.err \notin {E_KEYGEN, E_KEYFORMAT, E_ENCRYPT, E_DECRYPT}

\* C19: a fetch call that encrypts a string body writes the envelope string
\* and Content-Type application/json into the options object it was given,
\* and no later step of the call, a failure included, nor a later fetch call
\* restores the object; a second fetch call given that object encrypts the
\* first call's envelope string, so the data it dispatches decrypts to the
\* transport form the first call dispatched, not to the caller's payload.
C19_OptionsRewrittenInPlace ==
  [][\A c \in DOMAIN call :
       /\ (call[c].pc \in {"encryptingObject", "encryptingText"}
             /\ call'[c].pc = "sent") =>
            /\ options'[c].body = wire'[Len(wire')].body
            /\ options'[c].body # options[c].body
            /\ options'[c].body.val
                 = JSONStringify(TransportForm(
                     GetProp(JSONParse(options'[c].body.val).val, P_data).v))
            /\ options'[c].headers.ct = "application/json"
       /\ (call[c].pc \in {"sent", "responded", "readingJson", "decrypting",
                           "done", "failed"}
             /\ call'[c].pc # call[c].pc) =>
            options' = options
       /\ (hist.reuses = 1 /\ Len(wire) = 1 /\ hist.reused.kind = "string"
             /\ hist.reused.val # <<>>
             /\ call[c].pc \in {"encryptingObject", "encryptingText"}
             /\ call'[c].pc = "sent") =>
            /\ options[c].body = wire[1].body
            /\ call[c].pc = "encryptingObject"
            /\ decryptObject(GetProp(JSONParse(wire'[2].body.val).val, P_data).v,
                             call[c].key)
                 = JSONParse(wire[1].body.val)
            /\ decrypt(GetProp(JSONParse(wire'[2].body.val).val, P_data).v,
                       call[c].key)
                 # Ok(hist.reused.val)]_vars

\* C19's case: a call given a JSON body has settled; a second call given the
\* same options object has dispatched an envelope of the first call's
\* envelope, and the object holds that second envelope.
C19_Witness ==
  \E c \in DOMAIN call :
    /\ hist.reuses = 1
    /\ hist.reused = StringBody(B_JSON)
    /\ Len(wire) = 2
    /\ call[c].pc = "sent"
    /\ options[c].body = wire[2].body
    /\ wire[2].body # wire[1].body
    /\ decryptObject(GetProp(JSONParse(wire[2].body.val).val, P_data).v, call[c].key)
         = JSONParse(wire[1].body.val)

\* C20: in every state of the key store, hasKey() is true exactly when a
\* getOrCreateKey() called in that state returns the stored value at once,
\* without going to generateKey.
C20_HasKeyAgreesWithGetOrCreateKey ==
  [][\A p \in DOMAIN proc :
       (proc[p].pc = "idle" /\ proc'[p].pc # "idle") =>
         ( hasKey <=> ( /\ proc'[p].pc = "returned"
                        /\ proc'[p].key = storage.encryption_key.val
                        /\ storage' = storage ) )]_vars

====
